---------------------------- MODULE Spec2Model ----------------------------
(***************************************************************************)
(* Model of the two scripts of the repository:                             *)
(*   chatbot.py     the interactive chat loop (run_chatbot)                *)
(*   test_setup.py  the environment verifier (main and its four checks)    *)
(*                                                                         *)
(* Text is modelled as a sequence of one-character strings, so that        *)
(* str.strip, str.lower, slicing and repetition are computed, not assumed. *)
(***************************************************************************)
EXTENDS Integers, Sequences, FiniteSets

VARIABLES
    \* ---- chatbot.py ----
    pc,          \* position of run_chatbot: at the head of the while loop, or left it
    memory,      \* ConversationBufferMemory: the list of (role, text) messages
    line,        \* the raw line the last input() call returned
    inputEvent,  \* what the last input() call did: returned a line or raised
    callEvent,   \* what chain.run did in the last iteration ("none": not called)
    reads,       \* number of input() calls made
    calls,       \* number of chain.run calls made
    succeeded,   \* number of chain.run calls that returned a reply
    printed,     \* the last message the loop printed
    \* ---- test_setup.py ----
    vpc,         \* position of main: the next check to run, "summary", "done"
    version,     \* sys.version_info: [major, minor]
    importable,  \* the packages __import__ can load
    environ,     \* OPENAI_API_KEY after load_dotenv: [set, value]
    clientRaises,\* whether ChatOpenAI(...) raises in test_api_connection
    results,     \* main's list of (name, result) pairs
    returned,    \* what each check function returned
    api_test,    \* main's local api_test
    masked_key,  \* test_api_key's masked_key (empty until computed)
    passed,      \* main's local passed
    total,       \* main's local total
    banner       \* the final message main printed

chatVars == <<pc, memory, line, inputEvent, callEvent, reads, calls, succeeded, printed>>
verifierVars == <<vpc, version, importable, environ, clientRaises, results, returned,
                  api_test, masked_key, passed, total, banner>>
vars == <<chatVars, verifierVars>>

----------------------------------------------------------------------------
(* Text helpers *)

Whitespace == {" ", "\t"}

\* str.lower on one character
lower_char(c) ==
    CASE c = "E" -> "e"
      [] c = "X" -> "x"
      [] c = "I" -> "i"
      [] c = "T" -> "t"
      [] c = "H" -> "h"
      [] OTHER -> c

\* str.lower
lower_identity(s) == s
lower(s) == [i \in 1..Len(s) |-> lower_char(s[i])]

RECURSIVE lstrip(_)
lstrip(s) == IF s # <<>> /\ Head(s) \in Whitespace THEN lstrip(Tail(s)) ELSE s

RECURSIVE rstrip(_)
rstrip(s) ==
    IF s # <<>> /\ s[Len(s)] \in Whitespace THEN rstrip(SubSeq(s, 1, Len(s) - 1)) ELSE s

\* str.strip
strip_nothing(s) == s
strip(s) == rstrip(lstrip(s))

\* the literal "exit" of the exit condition
EXIT_KEYWORD == <<"e", "x", "i", "t">>

----------------------------------------------------------------------------
(* chatbot.py *)

MaxTurns == 3

Pads == {<<>>, <<" ">>, <<"\t">>, <<" ", "\t">>}
Cores == {<<>>,
          <<"e", "x", "i", "t">>, <<"E", "X", "I", "T">>, <<"E", "x", "i", "t">>,
          <<"h", "i">>, <<"e", "x", " ", "i", "t">>}
\* the lines input() can return
Lines == {l \o c \o r : l \in Pads, c \in Cores, r \in Pads}

\* the replies the remote model can give
Replies == {<<"o", "k">>, <<"e", "x", "i", "t">>}

\* Exception subclasses chain.run can raise
RemoteErrors == {"AuthenticationError", "APIConnectionError"}

\* ConversationBufferMemory.save_context, run by the chain after the model replied
save_context_reply_only(mem, input, output) ==
    mem \o <<[role |-> "ai", text |-> output]>>
save_context(mem, input, output) ==
    mem \o <<[role |-> "human", text |-> input], [role |-> "ai", text |-> output]>>

\* the except clauses of the loop body: where the loop goes and what it prints
except_all_continue(exc) == [pc |-> "awaiting_input", printed |-> "error"]
except_all_break(exc) == [pc |-> "terminated", printed |-> "interrupted"]
except_clauses(exc) ==
    IF exc = "KeyboardInterrupt"
    THEN [pc |-> "terminated", printed |-> "interrupted"]
    ELSE [pc |-> "awaiting_input", printed |-> "error"]

ChatInit ==
    /\ pc = "awaiting_input"
    /\ memory = <<>>
    /\ line = <<>>
    /\ inputEvent = "none"
    /\ callEvent = "none"
    /\ reads = 0
    /\ calls = 0
    /\ succeeded = 0
    /\ printed = "welcome"

\* the loop is at `while True` and about to call input()
AtInput == pc = "awaiting_input" /\ reads < MaxTurns

\* input() raises: KeyboardInterrupt (Ctrl-C) or EOFError (end of stdin)
InputRaises(exc) ==
    /\ AtInput
    /\ reads' = reads + 1
    /\ inputEvent' = exc
    /\ line' = <<>>
    /\ callEvent' = "none"
    /\ pc' = except_clauses(exc).pc
    /\ printed' = except_clauses(exc).printed
    /\ UNCHANGED <<memory, calls, succeeded>>
    /\ UNCHANGED verifierVars

\* input() returns l and the exit condition holds
ExitCommand(l) ==
    /\ AtInput
    /\ lower(strip(l)) = EXIT_KEYWORD
    /\ reads' = reads + 1
    /\ inputEvent' = "line"
    /\ line' = l
    /\ callEvent' = "none"
    /\ pc' = "terminated"
    /\ printed' = "farewell"
    /\ UNCHANGED <<memory, calls, succeeded>>
    /\ UNCHANGED verifierVars

\* input() returns l, not the exit keyword, and `not user_input` holds
EmptyInput(l) ==
    /\ AtInput
    /\ lower(strip(l)) # EXIT_KEYWORD
    /\ strip(l) = <<>>
    /\ reads' = reads + 1
    /\ inputEvent' = "line"
    /\ line' = l
    /\ callEvent' = "none"
    /\ pc' = "awaiting_input"
    /\ printed' = "please_enter"
    /\ UNCHANGED <<memory, calls, succeeded>>
    /\ UNCHANGED verifierVars

\* input() returns l, chain.run(input=user_input) returns reply
ExchangeOk(l, reply) ==
    /\ AtInput
    /\ lower(strip(l)) # EXIT_KEYWORD
    /\ strip(l) # <<>>
    /\ reads' = reads + 1
    /\ inputEvent' = "line"
    /\ line' = l
    /\ calls' = calls + 1
    /\ callEvent' = "ok"
    /\ succeeded' = succeeded + 1
    /\ memory' = save_context(memory, strip(l), reply)
    /\ pc' = "awaiting_input"
    /\ printed' = "reply"
    /\ UNCHANGED verifierVars

\* input() returns l, chain.run raises exc before anything is saved
ExchangeRaises(l, exc) ==
    /\ AtInput
    /\ lower(strip(l)) # EXIT_KEYWORD
    /\ strip(l) # <<>>
    /\ reads' = reads + 1
    /\ inputEvent' = "line"
    /\ line' = l
    /\ calls' = calls + 1
    /\ callEvent' = exc
    /\ pc' = except_clauses(exc).pc
    /\ printed' = except_clauses(exc).printed
    /\ UNCHANGED <<memory, succeeded>>
    /\ UNCHANGED verifierVars

\* one iteration of the while loop of run_chatbot
run_chatbot ==
    \/ \E exc \in {"KeyboardInterrupt", "EOFError"} : InputRaises(exc)
    \/ \E l \in Lines : ExitCommand(l)
    \/ \E l \in Lines : EmptyInput(l)
    \/ \E l \in Lines, reply \in Replies : ExchangeOk(l, reply)
    \/ \E l \in Lines, exc \in RemoteErrors \cup {"KeyboardInterrupt"} : ExchangeRaises(l, exc)

----------------------------------------------------------------------------
(* test_setup.py *)

MaxKeyLen == 14

\* s[:n] for n >= 0
slice_to(s, n) == SubSeq(s, 1, IF n < Len(s) THEN n ELSE Len(s))

\* s[-n:] for n > 0
slice_last(s, n) == SubSeq(s, (IF Len(s) - n > 0 THEN Len(s) - n ELSE 0) + 1, Len(s))

\* c * n: the empty string when n <= 0
repeat(c, n) == IF n <= 0 THEN <<>> ELSE [i \in 1..n |-> c]

\* the masking expression of test_api_key
mask_short_head(api_key) ==
    slice_to(api_key, 7) \o repeat("*", Len(api_key) - 11) \o slice_last(api_key, 4)
mask_whole_short_key(api_key) ==
    IF Len(api_key) < 12
    THEN repeat("*", Len(api_key))
    ELSE slice_to(api_key, 8) \o repeat("*", Len(api_key) - 12) \o slice_last(api_key, 4)
mask(api_key) ==
    slice_to(api_key, 8) \o repeat("*", Len(api_key) - 12) \o slice_last(api_key, 4)

\* the condition of test_python_version
python_version_ok(v) == v.major = 3 /\ v.minor >= 9

required_packages == {"langchain", "langchain_openai", "dotenv", "openai"}

\* all_good of test_imports
imports_ok(imp) == \A p \in required_packages : p \in imp

\* `if api_key`: os.getenv gave a non-empty string
api_key_found(env) == env.set /\ env.value # <<>>

\* the return value of test_api_connection
api_connection(imp, env, raises) ==
    IF "langchain_openai" \notin imp THEN "False"
    ELSE IF ~api_key_found(env) THEN "None"
    ELSE IF raises THEN "False"
    ELSE "True"

\* main: the connection result is recorded unless it is None
record_api_test_always(res, t) == Append(res, [name |-> "API Connection", result |-> (t = "True")])
record_api_test(res, t) ==
    IF t # "None"
    THEN Append(res, [name |-> "API Connection", result |-> (t = "True")])
    ELSE res

\* sum(1 for _, result in results if result)
RECURSIVE count_passed(_)
count_passed(res) ==
    IF res = <<>> THEN 0
    ELSE (IF Head(res).result THEN 1 ELSE 0) + count_passed(Tail(res))

\* the final message of main
final_message(p, t) == IF p = t THEN "success" ELSE "some_failed"

AsText(b) == IF b THEN "True" ELSE "False"

CheckNames == {"Python Version", "Dependencies", "API Key", "API Connection"}

Majors == {3, 4}
Minors == {0, 6, 8, 9, 12}
\* the interpreters that can run the script: its f-strings need 3.6 or later
Versions == {v \in [major : Majors, minor : Minors] : v.major = 3 => v.minor >= 6}
KeyAlphabet == {"s", "k"}
\* every credential of at most MaxKeyLen characters
Keys == UNION {[1..n -> KeyAlphabet] : n \in 0..MaxKeyLen}
ShortKey == <<"s", "k">>
LongKey == <<"s", "k", "s", "s", "k", "k", "s", "k", "k", "s", "s", "k", "s">>

\* main before its first check; the interpreter, the installed packages, the
\* credential and the behaviour of the client constructor are inputs.  The
\* script imports dotenv at its top, so dotenv is importable when main runs.
VerifierStart ==
    /\ vpc = "python_version"
    /\ results = <<>>
    /\ returned = [c \in CheckNames |-> "notrun"]
    /\ api_test = "unset"
    /\ masked_key = <<>>
    /\ passed = 0
    /\ total = 0
    /\ banner = "none"

VerifierInit ==
    /\ VerifierStart
    /\ version \in Versions
    /\ importable \in {S \in SUBSET required_packages : "dotenv" \in S}
    /\ environ \in {[set |-> FALSE, value |-> <<>>], [set |-> TRUE, value |-> <<>>],
                    [set |-> TRUE, value |-> ShortKey], [set |-> TRUE, value |-> LongKey]}
    /\ clientRaises \in BOOLEAN

MaskInit ==
    /\ VerifierStart
    /\ version = [major |-> 3, minor |-> 12]
    /\ importable = required_packages
    /\ environ \in {[set |-> TRUE, value |-> k] : k \in Keys}
    /\ clientRaises = FALSE

test_python_version ==
    /\ vpc = "python_version"
    /\ results' = Append(results, [name |-> "Python Version", result |-> python_version_ok(version)])
    /\ returned' = [returned EXCEPT !["Python Version"] = AsText(python_version_ok(version))]
    /\ vpc' = "imports"
    /\ UNCHANGED <<version, importable, environ, clientRaises, api_test, masked_key,
                   passed, total, banner>>
    /\ UNCHANGED chatVars

test_imports ==
    /\ vpc = "imports"
    /\ results' = Append(results, [name |-> "Dependencies", result |-> imports_ok(importable)])
    /\ returned' = [returned EXCEPT !["Dependencies"] = AsText(imports_ok(importable))]
    /\ vpc' = "api_key"
    /\ UNCHANGED <<version, importable, environ, clientRaises, api_test, masked_key,
                   passed, total, banner>>
    /\ UNCHANGED chatVars

test_api_key ==
    /\ vpc = "api_key"
    /\ masked_key' = IF api_key_found(environ) THEN mask(environ.value) ELSE masked_key
    /\ results' = Append(results, [name |-> "API Key", result |-> api_key_found(environ)])
    /\ returned' = [returned EXCEPT !["API Key"] = AsText(api_key_found(environ))]
    /\ vpc' = "api_connection"
    /\ UNCHANGED <<version, importable, environ, clientRaises, api_test, passed, total, banner>>
    /\ UNCHANGED chatVars

test_api_connection ==
    /\ vpc = "api_connection"
    /\ api_test' = api_connection(importable, environ, clientRaises)
    /\ returned' = [returned EXCEPT !["API Connection"] = api_test']
    /\ results' = record_api_test(results, api_test')
    /\ vpc' = "summary"
    /\ UNCHANGED <<version, importable, environ, clientRaises, masked_key, passed, total, banner>>
    /\ UNCHANGED chatVars

Summary ==
    /\ vpc = "summary"
    /\ passed' = count_passed(results)
    /\ total' = Len(results)
    /\ banner' = final_message(passed', total')
    /\ vpc' = "done"
    /\ UNCHANGED <<version, importable, environ, clientRaises, results, returned,
                   api_test, masked_key>>
    /\ UNCHANGED chatVars

\* main of test_setup.py, one check at a time
main ==
    \/ test_python_version
    \/ test_imports
    \/ test_api_key
    \/ test_api_connection
    \/ Summary

----------------------------------------------------------------------------
(* Specifications *)

\* the script that is not running
VerifierIdle ==
    /\ VerifierStart
    /\ version = [major |-> 3, minor |-> 12]
    /\ importable = required_packages
    /\ environ = [set |-> TRUE, value |-> LongKey]
    /\ clientRaises = FALSE

Init == ChatInit /\ VerifierIdle
Next == run_chatbot
\* chatbot.py
Spec == Init /\ [][Next]_vars

VerifierNext == main
VerifierSpecInit == ChatInit /\ VerifierInit
\* test_setup.py over interpreters, package sets and credentials
VerifierSpec == VerifierSpecInit /\ [][VerifierNext]_vars
MaskSpecInit == ChatInit /\ MaskInit
\* test_setup.py over every credential of at most MaxKeyLen characters
MaskSpec == MaskSpecInit /\ [][VerifierNext]_vars

----------------------------------------------------------------------------
(* Vocabulary of the properties, stated on the raw line and the raw key *)

\* the line holds nothing but whitespace (or nothing at all)
IsBlank(l) == \A i \in 1..Len(l) : l[i] \in Whitespace

\* the line is the word exit in any letter case, between whitespace
IsExitLine(l) ==
    \E a \in 1..Len(l) :
        /\ a + 3 <= Len(l)
        /\ \A i \in 1..(a - 1) : l[i] \in Whitespace
        /\ \A i \in (a + 4)..Len(l) : l[i] \in Whitespace
        /\ l[a] \in {"e", "E"}
        /\ l[a + 1] \in {"x", "X"}
        /\ l[a + 2] \in {"i", "I"}
        /\ l[a + 3] \in {"t", "T"}

\* the step is one iteration of the loop in which input() returned a line
ReadsLine == reads' = reads + 1 /\ inputEvent' = "line"

CredentialAbsent == ~environ.set \/ environ.value = <<>>

Min(a, b) == IF a < b THEN a ELSE b

----------------------------------------------------------------------------
(* chatbot.py: properties *)

C1_Step ==
    /\ Len(memory') >= Len(memory)
    /\ SubSeq(memory', 1, Len(memory)) = memory
    /\ (ReadsLine /\ ~IsBlank(line') /\ ~IsExitLine(line')) =>
          /\ calls' = calls + 1
          /\ callEvent' # "none"
          /\ callEvent' = "ok" =>
                /\ Len(memory') = Len(memory) + 2
                /\ memory'[Len(memory) + 1].role = "human"
                /\ memory'[Len(memory) + 2].role = "ai"
          /\ callEvent' # "ok" => memory' = memory

\* C1: every line that is neither blank nor the exit keyword makes one remote
\* call; the history grows by one user entry followed by one reply entry when
\* the call succeeds and by nothing when it raises; the history is always
\* twice as long as the number of successful exchanges, and what it held
\* stays in place unchanged.
C1_HistoryGrowth == [](Len(memory) = 2 * succeeded) /\ [][C1_Step]_vars

\* two exchanges succeeded and a third one failed
C1_Witness == succeeded = 2 /\ calls = 3 /\ callEvent \in RemoteErrors /\ Len(memory) = 4

\* C2: a line that is empty or only whitespace makes no remote call, leaves
\* the history as it was and leaves the loop awaiting input.
C2_BlankInput ==
    [][(ReadsLine /\ IsBlank(line')) =>
          /\ calls' = calls
          /\ callEvent' = "none"
          /\ memory' = memory
          /\ succeeded' = succeeded
          /\ pc' = "awaiting_input"]_vars

\* a whitespace-only line was read after an exchange had been stored
C2_Witness ==
    /\ inputEvent = "line"
    /\ line = <<" ", "\t">>
    /\ printed = "please_enter"
    /\ Len(memory) = 2

\* C3: an exception raised by the remote call is caught: the loop stays
\* awaiting input, the call is not repeated (a remote call is made only in an
\* iteration that read a line, once), and the step after a failed call is a
\* new input() call.
C3_RemoteErrorCaught ==
    [][/\ (reads' = reads + 1 /\ callEvent' \in RemoteErrors) =>
              /\ pc' = "awaiting_input"
              /\ printed' = "error"
              /\ calls' = calls + 1
       /\ calls' <= calls + 1
       /\ calls' = calls + 1 => ReadsLine
       /\ callEvent \in RemoteErrors => (reads' = reads + 1 /\ inputEvent' # "none")]_vars

\* a remote call failed after an earlier call, and the loop goes on
C3_Witness ==
    /\ callEvent \in RemoteErrors
    /\ calls = 2
    /\ pc = "awaiting_input"
    /\ printed = "error"

\* C4: the loop is awaiting input or terminated; an iteration ends terminated
\* exactly when it read the exit keyword or was interrupted (in input() or in
\* the remote call), every other iteration ends awaiting input; once
\* terminated, nothing more is read and no remote call is made.
C4_TwoStates ==
    /\ [](pc \in {"awaiting_input", "terminated"})
    /\ [][/\ pc = "terminated" => (reads' = reads /\ calls' = calls)
          /\ (pc = "awaiting_input" /\ reads' = reads + 1) =>
                (pc' = "terminated" <=>
                    \/ (inputEvent' = "line" /\ IsExitLine(line'))
                    \/ inputEvent' = "KeyboardInterrupt"
                    \/ callEvent' = "KeyboardInterrupt")]_vars

\* the loop ended on an interrupt that arrived during a remote call
C4_Witness ==
    /\ pc = "terminated"
    /\ callEvent = "KeyboardInterrupt"
    /\ printed = "interrupted"
    /\ calls = 2

\* C5: a line that is the word exit in any letter case, between any leading
\* and trailing whitespace, ends the loop with the farewell, without a remote
\* call and without a change to the history.
C5_ExitKeyword ==
    [][(ReadsLine /\ IsExitLine(line')) =>
          /\ pc' = "terminated"
          /\ printed' = "farewell"
          /\ calls' = calls
          /\ callEvent' = "none"
          /\ memory' = memory]_vars

\* an upper-case exit between whitespace ended the loop after one exchange
C5_Witness ==
    /\ pc = "terminated"
    /\ printed = "farewell"
    /\ line = <<" ", "\t", "E", "X", "I", "T", "\t">>
    /\ Len(memory) = 2

----------------------------------------------------------------------------
(* test_setup.py: properties *)

\* C6: without a credential the credential check fails, the connection check
\* is skipped and appears neither in the table nor in the total, and the
\* success message is not printed, whatever the other checks gave.
C6_SkippedWithoutCredential ==
    (vpc = "done" /\ CredentialAbsent) =>
        /\ returned["API Key"] = "False"
        /\ returned["API Connection"] = "None"
        /\ \A i \in 1..Len(results) : results[i].name # "API Connection"
        /\ total = 3
        /\ banner # "success"

\* C7: the passed count is the number of checks that returned True, the total
\* is the number of checks that were not skipped, and the success message is
\* printed exactly when no executed check failed.
C7_SummaryCounts ==
    vpc = "done" =>
        /\ passed = Cardinality({c \in CheckNames : returned[c] = "True"})
        /\ total = Cardinality({c \in CheckNames : returned[c] \in {"True", "False"}})
        /\ banner = "success" <=> \A c \in CheckNames : returned[c] \in {"True", "None"}

\* the connection check was skipped and two of the three others passed
C7_Witness ==
    /\ vpc = "done"
    /\ returned["API Connection"] = "None"
    /\ passed = 2
    /\ total = 3
    /\ banner = "some_failed"

\* C8: for a key of length L >= 12 the masked key has length L, equals the key
\* in its first 8 and last 4 places and is the mask character in between.
C8_MaskLongKey ==
    (returned["API Key"] = "True" /\ Len(environ.value) >= 12) =>
        LET k == environ.value
            L == Len(environ.value)
        IN  /\ Len(masked_key) = L
            /\ \A i \in 1..8 : masked_key[i] = k[i]
            /\ \A i \in (L - 3)..L : masked_key[i] = k[i]
            /\ \A i \in 9..(L - 4) : masked_key[i] = "*"

\* a key of 14 characters was masked in its two middle places
C8_Witness ==
    /\ returned["API Key"] = "True"
    /\ Len(environ.value) = 14
    /\ masked_key[9] = "*"
    /\ masked_key[10] = "*"

\* C9: the version check passes exactly when (major, minor) >= (3, 9).
C9_VersionThreshold ==
    returned["Python Version"] # "notrun" =>
        (returned["Python Version"] = "True" <=>
            (version.major > 3 \/ (version.major = 3 /\ version.minor >= 9)))

\* C10: for a non-empty key of length L < 12 the masked key holds no mask
\* character: it is the first min(8, L) characters of the key followed by its
\* last min(4, L) characters, so it shows every character of the key and is
\* longer than the key.
C10_MaskShortKey ==
    (returned["API Key"] = "True" /\ Len(environ.value) < 12) =>
        LET k == environ.value
            L == Len(environ.value)
            m == masked_key
        IN  /\ m = SubSeq(k, 1, Min(8, L)) \o SubSeq(k, L - Min(4, L) + 1, L)
            /\ \A j \in 1..Len(m) : m[j] # "*"
            /\ Len(m) > L
            /\ \A i \in 1..L : (i <= 8 /\ m[i] = k[i]) \/ (i > L - 4 /\ m[Len(m) - (L - i)] = k[i])

\* a key of 9 characters was displayed as 12 characters, none of them a mask
C10_Witness ==
    /\ returned["API Key"] = "True"
    /\ Len(environ.value) = 9
    /\ Len(masked_key) = 12

=============================================================================
